---- MODULE Spec2Model ----
(***************************************************************************)
(* Weather-station data generator (generator/generator.py).               *)
(*                                                                         *)
(* Numbers.  Every physical quantity is an integer count of thousandths   *)
(* (20.5 degrees is 20500), so that round(x, 2) is a real conversion: it   *)
(* maps a count of thousandths to a multiple of 10.  Weights and the      *)
(* uniform draws of random.random() are thousandths as well (0.25 is 250). *)
(* The arithmetic is exact; binary floating-point error is not modelled.   *)
(*                                                                         *)
(* Randomness and the wall clock are inputs: one record of draws per       *)
(* generate() call.                                                        *)
(***************************************************************************)
EXTENDS Integers, Sequences, FiniteSets, TLC

VARIABLES
    generator,      \* the WeatherDataGenerator object (its fields), or NoGenerator
    reading,        \* the dict returned by the last generate(), or NoReading
    call,           \* the draws the last generate() consumed, or NoCall
    pc,             \* main(): the statement about to run
    attempt,        \* connect_to_db: the loop variable `attempt`
    attempts,       \* number of psycopg2.connect calls made
    waits,          \* number of time.sleep(retry_delay) calls made
    conn,           \* the connection: "none", "open" or "closed"
    closes,         \* number of conn.close() calls made
    records_count,  \* main(): records_count
    insert_calls,   \* number of insert_weather_data calls made
    inserted,       \* the reading handed to the last insert_weather_data call
    committed,      \* number of conn.commit() calls that succeeded
    sleeps,         \* number of time.sleep(GENERATION_INTERVAL) calls completed
    summary,        \* the total printed by the KeyboardInterrupt handler, or -1
    raised,         \* the exception raised in main(), or "none"
    wc_choices,     \* _weighted_choice called on its own: the list `choices`
    wc_r,           \* ... the draw r = random.uniform(0, total)
    wc_result,      \* ... <<>> before the call, <<entry returned, fell back>> after
    clock_hour,     \* _get_seasonal_factor called on its own: datetime.now().hour
    sf_result       \* ... <<>> before the call, <<factor returned>> after

genVars == <<generator, reading, call>>
mainVars == <<pc, attempt, attempts, waits, conn, closes, records_count,
              insert_calls, inserted, committed, sleeps, summary, raised>>
pureVars == <<wc_choices, wc_r, wc_result, clock_hour, sf_result>>
vars == <<generator, reading, call, pc, attempt, attempts, waits, conn, closes,
          records_count, insert_calls, inserted, committed, sleeps, summary, raised,
          wc_choices, wc_r, wc_result, clock_hour, sf_result>>

(***************************************************************************)
(* Bounds of the model.                                                    *)
(***************************************************************************)
\* generate() calls explored on one generator object
MaxCalls == 4
\* generate() calls explored with small humidity perturbations
MaxDriftCalls == 5
\* longest list handed to _weighted_choice on its own
MaxChoices == 3
\* largest weight of an entry of such a list, in whole units
MaxWeight == 2

(***************************************************************************)
(* Module constants of generator.py.                                       *)
(***************************************************************************)
WIND_DIRECTIONS == <<"N", "NE", "E", "SE", "S", "SW", "W", "NW">>

\* The condition names stand for the source's strings, in list order:
\* Clear, PartlyCloudy, Cloudy, Overcast, LightRain, Rain, Thunderstorm, Fog.
WEATHER_CONDITIONS ==
    << <<"Clear", 250>>, <<"PartlyCloudy", 200>>, <<"Cloudy", 200>>,
       <<"Overcast", 150>>, <<"LightRain", 100>>, <<"Rain", 50>>,
       <<"Thunderstorm", 30>>, <<"Fog", 20>> >>

\* the list built when pressure < 1000 and humidity > 70
RAIN_CHOICES ==
    << <<"Overcast", 300>>, <<"LightRain", 300>>, <<"Rain", 250>>,
       <<"Thunderstorm", 100>>, <<"Fog", 50>> >>

\* the list built when pressure > 1020
FAIR_CHOICES ==
    << <<"Clear", 500>>, <<"PartlyCloudy", 350>>, <<"Cloudy", 150>> >>

(***************************************************************************)
(* Arithmetic helpers.                                                     *)
(***************************************************************************)
Min(a, b) == IF a < b THEN a ELSE b
Max(a, b) == IF a > b THEN a ELSE b

\* the clamp without its upper limit
ClampLowerOnly(lo, hi, x) == Max(lo, x)

\* max(lo, min(hi, x))
Clamp(lo, hi, x) == Max(lo, Min(hi, x))

\* round(x, 2): thousandths to the nearest hundredth, ties to the even hundredth.
Round2(x) ==
    LET q == x \div 10
        rem == x % 10
    IN  IF rem < 5 THEN q * 10
        ELSE IF rem > 5 THEN (q + 1) * 10
        ELSE IF q % 2 = 0 THEN q * 10 ELSE (q + 1) * 10

\* x * (num/den) for the float factors 0.1, 0.2, 0.05 and 1.5; the draws below
\* are multiples of den, so the division is exact
Scale(x, num, den) == (x * num) \div den

\* 1000 * sin(k * pi / 12), k = 0..23, to the nearest thousandth
SinTable ==
    << 0, 259, 500, 707, 866, 966, 1000, 966, 866, 707, 500, 259,
       0, -259, -500, -707, -866, -966, -1000, -966, -866, -707, -500, -259 >>

\* math.sin(k * math.pi / 12) for an integer k
SinPi12(k) == SinTable[(k % 24) + 1]

\* _get_seasonal_factor with datetime.now().hour = hour
SeasonalFactor(hour) == SinPi12(hour - 4)

(***************************************************************************)
(* _weighted_choice: r is the draw random.uniform(0, total).               *)
(***************************************************************************)
RECURSIVE SumWeights(_)
SumWeights(choices) ==
    IF choices = <<>> THEN 0 ELSE Head(choices)[2] + SumWeights(Tail(choices))

\* the loop of lines 70-73 comparing with > in place of >=
RECURSIVE WalkStrict(_, _, _, _)
WalkStrict(choices, r, i, upto) ==
    IF i > Len(choices) THEN choices[Len(choices)][1]
    ELSE IF upto + choices[i][2] > r THEN choices[i][1]
    ELSE WalkStrict(choices, r, i + 1, upto + choices[i][2])

\* lines 69-74: the entry returned, by the loop or by the fall-back of line 74
RECURSIVE Walk(_, _, _, _)
Walk(choices, r, i, upto) ==
    IF i > Len(choices) THEN choices[Len(choices)][1]
    ELSE IF upto + choices[i][2] >= r THEN choices[i][1]
    ELSE Walk(choices, r, i + 1, upto + choices[i][2])

\* the walk that compares each weight alone, upto left at 0
WeightedChoiceNoAccumulate(choices, r) ==
    LET hits == {i \in 1 .. Len(choices) : choices[i][2] >= r}
    IN  IF hits = {} THEN choices[Len(choices)][1]
        ELSE choices[CHOOSE i \in hits : \A j \in hits : i <= j][1]

WeightedChoice(choices, r) == Walk(choices, r, 1, 0)

\* lines 69-74: the position at which the loop returns, 0 when it runs to
\* its end and line 74 returns the last entry
RECURSIVE WalkReturnsAt(_, _, _, _)
WalkReturnsAt(choices, r, i, upto) ==
    IF i > Len(choices) THEN 0
    ELSE IF upto + choices[i][2] >= r THEN i
    ELSE WalkReturnsAt(choices, r, i + 1, upto + choices[i][2])

(***************************************************************************)
(* The WeatherDataGenerator object.                                        *)
(***************************************************************************)
NoGenerator == [constructed |-> FALSE]
NoReading == [returned |-> FALSE]
NoCall == [made |-> FALSE]

\* __init__: random.uniform(15, 25), uniform(40, 70), uniform(1000, 1025),
\* uniform(1, 5) and randint(0, 7); the sets sample those ranges.
InitTemperatures == {20000}
InitHumidities == {60000}
InitPressures == {1000000}
InitWindSpeeds == {4000}
InitDirections == {0, 7}

NewGenerators ==
    { [constructed |-> TRUE,
       base_temperature |-> t, base_humidity |-> h, base_pressure |-> p,
       base_wind_speed |-> w, current_direction_idx |-> i, time_counter |-> 0] :
      t \in InitTemperatures, h \in InitHumidities, p \in InitPressures,
      w \in InitWindSpeeds, i \in InitDirections }

(***************************************************************************)
(* generate(), one quantity at a time, as the code computes it.            *)
(***************************************************************************)
\* base_temperature without the clamp of line 84
NextBaseTemperatureUnclamped(base, variation) ==
    base + Scale(variation, 1, 10)

\* lines 82-84: base_temperature after the perturbation and the clamp
NextBaseTemperature(base, variation) ==
    Clamp(-10000, 35000, base + Scale(variation, 1, 10))

\* line 85: the temperature returned
TemperatureOut(base, seasonal_factor, noise) ==
    Round2(base + seasonal_factor * 5 + noise)

\* base_humidity without the seasonal adjustment of lines 91-92
NextBaseHumidityNoSeasonal(base, variation, seasonal_factor) ==
    Clamp(20000, 100000, base + Scale(variation, 2, 10))

\* lines 88-92: base_humidity after the perturbation, the seasonal
\* adjustment and the clamp
NextBaseHumidity(base, variation, seasonal_factor) ==
    LET perturbed == base + Scale(variation, 2, 10)
        humidity_adjustment == (-seasonal_factor) * 10
    IN  Clamp(20000, 100000, perturbed + Scale(humidity_adjustment, 1, 10))

\* lines 93-94: the humidity returned
HumidityOut(base, noise) == Clamp(20000, 100000, Round2(base + noise))

\* lines 97-99: base_pressure after the perturbation and the clamp
NextBasePressure(base, variation) ==
    Clamp(980000, 1040000, base + Scale(variation, 5, 100))

\* line 100: the pressure returned
PressureOut(base, noise) == Round2(base + noise)

\* lines 103-105: base_wind_speed after the perturbation and the clamp
NextBaseWindSpeed(base, variation) ==
    Clamp(0, 20000, base + Scale(variation, 1, 10))

\* line 107: gust = random.random() < 0.1
Gust(roll) == roll < 100

\* the wind speed returned without the clamp of line 109
WindSpeedOutUnclamped(base, gust, noise) ==
    Round2((IF gust THEN Scale(base, 15, 10) ELSE base) + noise)

\* lines 108-109: the wind speed returned
WindSpeedOut(base, gust, noise) ==
    Clamp(0, 25000,
          Round2((IF gust THEN Scale(base, 15, 10) ELSE base) + noise))

\* the turn wrapped by the last index instead of the length
NextDirectionIdxShortWrap(idx, roll, step) ==
    IF roll < 50 THEN (idx + step) % (Len(WIND_DIRECTIONS) - 1) ELSE idx

\* lines 112-113: current_direction_idx after the 5% turn
NextDirectionIdx(idx, roll, step) ==
    IF roll < 50 THEN (idx + step) % Len(WIND_DIRECTIONS) ELSE idx

\* line 114: WIND_DIRECTIONS[idx], idx counted from 0
WindDirection(idx) == WIND_DIRECTIONS[idx + 1]

\* the regime test with `or` in place of `and`
WeatherChoicesEither(pressure, humidity) ==
    IF pressure < 1000000 \/ humidity > 70000 THEN RAIN_CHOICES
    ELSE IF pressure > 1020000 THEN FAIR_CHOICES
    ELSE WEATHER_CONDITIONS

\* lines 117-134: the list the condition is drawn from
WeatherChoices(pressure, humidity) ==
    IF pressure < 1000000 /\ humidity > 70000 THEN RAIN_CHOICES
    ELSE IF pressure > 1020000 THEN FAIR_CHOICES
    ELSE WEATHER_CONDITIONS

\* lines 67-68: r = random.uniform(0, total) = total * random.random()
UniformUpTo(total, roll) == Scale(total, roll, 1000)

\* generate() with the gust multiplier stored into base_wind_speed
GenerateResultGustKept(g, d) ==
    LET seasonal_factor == SeasonalFactor(d.hour)
        base_temperature ==
            NextBaseTemperature(g.base_temperature, d.temperature_variation)
        base_humidity ==
            NextBaseHumidity(g.base_humidity, d.humidity_variation, seasonal_factor)
        humidity == HumidityOut(base_humidity, d.humidity_noise)
        base_pressure ==
            NextBasePressure(g.base_pressure, d.pressure_variation)
        pressure == PressureOut(base_pressure, d.pressure_noise)
        clamped_wind_speed ==
            NextBaseWindSpeed(g.base_wind_speed, d.wind_variation)
        base_wind_speed ==
            IF Gust(d.gust_roll) THEN Scale(clamped_wind_speed, 15, 10)
            ELSE clamped_wind_speed
        current_direction_idx ==
            NextDirectionIdx(g.current_direction_idx, d.turn_roll, d.turn_step)
        weather_choices == WeatherChoices(pressure, humidity)
        r == UniformUpTo(SumWeights(weather_choices), d.choice_roll)
    IN  [generator |->
            [constructed |-> TRUE,
             base_temperature |-> base_temperature,
             base_humidity |-> base_humidity,
             base_pressure |-> base_pressure,
             base_wind_speed |-> base_wind_speed,
             current_direction_idx |-> current_direction_idx,
             time_counter |-> g.time_counter + 1],
         reading |->
            [returned |-> TRUE,
             temperature |->
                TemperatureOut(base_temperature, seasonal_factor, d.temperature_noise),
             humidity |-> humidity,
             pressure |-> pressure,
             wind_speed |-> Clamp(0, 25000, Round2(base_wind_speed + d.wind_noise)),
             wind_direction |-> WindDirection(current_direction_idx),
             weather_condition |-> WeightedChoice(weather_choices, r)]]

\* generate() on generator g with the draws d: the object afterwards and
\* the dict returned
GenerateResult(g, d) ==
    LET seasonal_factor == SeasonalFactor(d.hour)
        base_temperature ==
            NextBaseTemperature(g.base_temperature, d.temperature_variation)
        temperature ==
            TemperatureOut(base_temperature, seasonal_factor, d.temperature_noise)
        base_humidity ==
            NextBaseHumidity(g.base_humidity, d.humidity_variation, seasonal_factor)
        humidity == HumidityOut(base_humidity, d.humidity_noise)
        base_pressure ==
            NextBasePressure(g.base_pressure, d.pressure_variation)
        pressure == PressureOut(base_pressure, d.pressure_noise)
        base_wind_speed ==
            NextBaseWindSpeed(g.base_wind_speed, d.wind_variation)
        wind_speed ==
            WindSpeedOut(base_wind_speed, Gust(d.gust_roll), d.wind_noise)
        current_direction_idx ==
            NextDirectionIdx(g.current_direction_idx, d.turn_roll, d.turn_step)
        weather_choices == WeatherChoices(pressure, humidity)
        r == UniformUpTo(SumWeights(weather_choices), d.choice_roll)
    IN  [generator |->
            [constructed |-> TRUE,
             base_temperature |-> base_temperature,
             base_humidity |-> base_humidity,
             base_pressure |-> base_pressure,
             base_wind_speed |-> base_wind_speed,
             current_direction_idx |-> current_direction_idx,
             time_counter |-> g.time_counter + 1],
         reading |->
            [returned |-> TRUE,
             temperature |-> temperature,
             humidity |-> humidity,
             pressure |-> pressure,
             wind_speed |-> wind_speed,
             wind_direction |-> WindDirection(current_direction_idx),
             weather_condition |-> WeightedChoice(weather_choices, r)]]

(***************************************************************************)
(* The draws of one generate() call.  The Gaussian draws have no bound in  *)
(* the code, so the sets take a value of each sign, large enough for every *)
(* base to travel from its seed range to both ends of its clamp range      *)
(* within MaxCalls calls.  A draw record varies one input of the quiet     *)
(* call at a time; two more records move every input at once.              *)
(***************************************************************************)
QuietCall ==
    [made |-> TRUE, hour |-> 4,
     temperature_variation |-> 0, temperature_noise |-> 0,
     humidity_variation |-> 0, humidity_noise |-> 0,
     pressure_variation |-> 0, pressure_noise |-> 0,
     wind_variation |-> 0, gust_roll |-> 500, wind_noise |-> 0,
     turn_roll |-> 500, turn_step |-> 1, choice_roll |-> 0]

Hours == {10, 22, 7}
TemperatureVariations == {-310000, 310000}
TemperatureNoises == {-300, 300}
HumidityVariations == {-210000, 210000}
HumidityNoises == {-2000, 2000}
PressureVariations == {-820000, 820000}
PressureNoises == {-500, 500}
WindVariations == {-170000, 170000}
GustRolls == {50, 100}
WindNoises == {-300, 300}
TurnRolls == {20, 50}
TurnSteps == {-1, 1}
ChoiceRolls == {400, 900, 1000}

Calls ==
    {QuietCall}
    \cup {[QuietCall EXCEPT !.hour = v] : v \in Hours}
    \cup {[QuietCall EXCEPT !.temperature_variation = v] : v \in TemperatureVariations}
    \cup {[QuietCall EXCEPT !.temperature_noise = v] : v \in TemperatureNoises}
    \cup {[QuietCall EXCEPT !.humidity_variation = v] : v \in HumidityVariations}
    \cup {[QuietCall EXCEPT !.humidity_noise = v] : v \in HumidityNoises}
    \cup {[QuietCall EXCEPT !.pressure_variation = v] : v \in PressureVariations}
    \cup {[QuietCall EXCEPT !.pressure_noise = v] : v \in PressureNoises}
    \cup {[QuietCall EXCEPT !.wind_variation = v] : v \in WindVariations}
    \cup {[QuietCall EXCEPT !.gust_roll = v] : v \in GustRolls}
    \cup {[QuietCall EXCEPT !.wind_noise = v] : v \in WindNoises}
    \cup {[QuietCall EXCEPT !.turn_roll = v] : v \in TurnRolls}
    \cup {[QuietCall EXCEPT !.turn_roll = 20, !.turn_step = s] : s \in TurnSteps}
    \cup {[QuietCall EXCEPT !.choice_roll = v] : v \in ChoiceRolls}
    \cup {[made |-> TRUE, hour |-> 10,
           temperature_variation |-> 310000, temperature_noise |-> 300,
           humidity_variation |-> 210000, humidity_noise |-> 2000,
           pressure_variation |-> 820000, pressure_noise |-> 500,
           wind_variation |-> 170000, gust_roll |-> 50, wind_noise |-> 300,
           turn_roll |-> 20, turn_step |-> 1, choice_roll |-> 1000],
          [made |-> TRUE, hour |-> 22,
           temperature_variation |-> -310000, temperature_noise |-> -300,
           humidity_variation |-> -210000, humidity_noise |-> -2000,
           pressure_variation |-> -820000, pressure_noise |-> -500,
           wind_variation |-> -170000, gust_roll |-> 100, wind_noise |-> -300,
           turn_roll |-> 20, turn_step |-> -1, choice_roll |-> 400]}

(***************************************************************************)
(* The generator on its own: constructed, then generate() called again     *)
(* and again.  main() has not started.                                     *)
(***************************************************************************)
\* the helper functions are not being called on their own
HelpersNotCalled ==
    /\ wc_choices = <<>> /\ wc_r = 0 /\ wc_result = <<>>
    /\ clock_hour = 0 /\ sf_result = <<>>

MainNotStarted ==
    /\ pc = "start" /\ attempt = 0 /\ attempts = 0 /\ waits = 0
    /\ conn = "none" /\ closes = 0 /\ records_count = 0
    /\ insert_calls = 0 /\ inserted = NoReading /\ committed = 0
    /\ sleeps = 0 /\ summary = -1 /\ raised = "none"

InitGen ==
    /\ generator \in NewGenerators
    /\ reading = NoReading
    /\ call = NoCall
    /\ MainNotStarted
    /\ HelpersNotCalled

\* one generate() call
Generate ==
    /\ generator.constructed
    /\ generator.time_counter < MaxCalls
    /\ \E d \in Calls :
         LET res == GenerateResult(generator, d)
         IN  /\ generator' = res.generator
             /\ reading' = res.reading
             /\ call' = d
    /\ UNCHANGED mainVars
    /\ UNCHANGED pureVars

SpecGen == InitGen /\ [][Generate]_vars

(***************************************************************************)
(* main(): one process, pc names the statement about to run.               *)
(*   start        lines 190-198, before connect_to_db's loop               *)
(*   connect      line 155, psycopg2.connect                               *)
(*   retry_sleep  lines 159-160, after an OperationalError                 *)
(*   construct    lines 201-203, after connect_to_db returned              *)
(*   generate     line 210            insert  line 213                     *)
(*   count        lines 214-227       sleep   line 230                     *)
(*   except       line 233            finally lines 235-236                *)
(*   exit         main() has ended                                         *)
(* SIGINT raises KeyboardInterrupt in the main thread at whatever          *)
(* statement is running; the handler and the finally block are taken to    *)
(* run to their end.                                                       *)
(***************************************************************************)
max_retries == 30

\* the draws explored inside main()'s loop
MainCalls ==
    { QuietCall,
      [QuietCall EXCEPT !.gust_roll = 50],
      [QuietCall EXCEPT !.pressure_variation = 820000] }

Init ==
    /\ generator = NoGenerator
    /\ reading = NoReading
    /\ call = NoCall
    /\ MainNotStarted
    /\ HelpersNotCalled

\* lines 190-198 and 150-153: the banner, then connect_to_db starts its loop
Start ==
    /\ pc = "start"
    /\ pc' = "connect"
    /\ attempt' = 0
    /\ UNCHANGED <<generator, reading, call, attempts, waits, conn, closes,
                   records_count, insert_calls, inserted, committed, sleeps,
                   summary, raised>>
    /\ UNCHANGED pureVars

\* lines 155-157: the attempt succeeds and connect_to_db returns conn
ConnectSucceeds ==
    /\ pc = "connect"
    /\ attempts' = attempts + 1
    /\ conn' = "open"
    /\ pc' = "construct"
    /\ UNCHANGED <<generator, reading, call, attempt, waits, closes,
                   records_count, insert_calls, inserted, committed, sleeps,
                   summary, raised>>
    /\ UNCHANGED pureVars

\* lines 155, 158-159: the attempt raises psycopg2.OperationalError
ConnectUnavailable ==
    /\ pc = "connect"
    /\ attempts' = attempts + 1
    /\ pc' = "retry_sleep"
    /\ UNCHANGED <<generator, reading, call, attempt, waits, conn, closes,
                   records_count, insert_calls, inserted, committed, sleeps,
                   summary, raised>>
    /\ UNCHANGED pureVars

\* the loop bound off by one
HasNextAttemptOffByOne(a) == a + 1 <= max_retries

\* line 153: range(max_retries) has a value after `attempt`
HasNextAttempt(a) == a + 1 < max_retries

\* lines 160, 153, 162: the sleep, then the next attempt or the final raise
RetrySleep ==
    /\ pc = "retry_sleep"
    /\ waits' = waits + 1
    /\ IF HasNextAttempt(attempt)
       THEN /\ attempt' = attempt + 1
            /\ pc' = "connect"
            /\ raised' = raised
       ELSE /\ attempt' = attempt
            /\ pc' = "exit"
            /\ raised' = "ConnectionExhausted"
    /\ UNCHANGED <<generator, reading, call, attempts, conn, closes,
                   records_count, insert_calls, inserted, committed, sleeps,
                   summary>>
    /\ UNCHANGED pureVars

\* the other error handled like OperationalError: a wait and a further attempt
ConnectOtherErrorRetried ==
    /\ pc = "connect"
    /\ attempts' = attempts + 1
    /\ pc' = "retry_sleep"
    /\ raised' = "ConnectError"
    /\ UNCHANGED <<generator, reading, call, attempt, waits, conn, closes,
                   records_count, insert_calls, inserted, committed, sleeps,
                   summary>>
    /\ UNCHANGED pureVars

\* line 155: the attempt raises an error that is no OperationalError; no
\* handler in connect_to_db or main() catches it
ConnectOtherError ==
    /\ pc = "connect"
    /\ attempts' = attempts + 1
    /\ pc' = "exit"
    /\ raised' = "ConnectError"
    /\ UNCHANGED <<generator, reading, call, attempt, waits, conn, closes,
                   records_count, insert_calls, inserted, committed, sleeps,
                   summary>>
    /\ UNCHANGED pureVars

\* lines 201-203: generator = WeatherDataGenerator(); records_count = 0
Construct ==
    /\ pc = "construct"
    /\ generator' \in NewGenerators
    /\ records_count' = 0
    /\ pc' = "generate"
    /\ UNCHANGED <<reading, call, attempt, attempts, waits, conn, closes,
                   insert_calls, inserted, committed, sleeps, summary, raised>>
    /\ UNCHANGED pureVars

\* line 210: weather_data = generator.generate()
LoopGenerate ==
    /\ pc = "generate"
    /\ generator.time_counter < MaxCalls
    /\ \E d \in MainCalls :
         LET res == GenerateResult(generator, d)
         IN  /\ generator' = res.generator
             /\ reading' = res.reading
             /\ call' = d
    /\ pc' = "insert"
    /\ UNCHANGED <<attempt, attempts, waits, conn, closes, records_count,
                   insert_calls, inserted, committed, sleeps, summary, raised>>
    /\ UNCHANGED pureVars

\* lines 213, 174-185: execute, fetchone and commit succeed
InsertCommits ==
    /\ pc = "insert"
    /\ conn = "open"
    /\ insert_calls' = insert_calls + 1
    /\ inserted' = reading
    /\ committed' = committed + 1
    /\ pc' = "count"
    /\ UNCHANGED <<generator, reading, call, attempt, attempts, waits, conn,
                   closes, records_count, sleeps, summary, raised>>
    /\ UNCHANGED pureVars

\* the error swallowed and the loop continued with the next tick
UnhandledErrorSwallowed == "sleep"

\* the failed insert attempted again with the same reading
UnhandledErrorRetried == "insert"

\* lines 232-235: where an error that is no KeyboardInterrupt goes from the
\* try block
UnhandledErrorTarget == "finally"

\* lines 213, 175: cur.execute raises; conn.commit() is not reached and the
\* error leaves insert_weather_data
InsertFails ==
    /\ pc = "insert"
    /\ conn = "open"
    /\ insert_calls' = insert_calls + 1
    /\ inserted' = reading
    /\ raised' = "PersistFailure"
    /\ pc' = UnhandledErrorTarget
    /\ UNCHANGED <<generator, reading, call, attempt, attempts, waits, conn,
                   closes, records_count, committed, sleeps, summary>>
    /\ UNCHANGED pureVars

\* lines 214-227: records_count += 1 and the prints
Count ==
    /\ pc = "count"
    /\ records_count' = records_count + 1
    /\ pc' = "sleep"
    /\ UNCHANGED <<generator, reading, call, attempt, attempts, waits, conn,
                   closes, insert_calls, inserted, committed, sleeps, summary,
                   raised>>
    /\ UNCHANGED pureVars

\* line 230: time.sleep(GENERATION_INTERVAL) returns
Sleep ==
    /\ pc = "sleep"
    /\ sleeps' = sleeps + 1
    /\ pc' = "generate"
    /\ UNCHANGED <<generator, reading, call, attempt, attempts, waits, conn,
                   closes, records_count, insert_calls, inserted, committed,
                   summary, raised>>
    /\ UNCHANGED pureVars

\* KeyboardInterrupt inside connect_to_db (lines 153-160) or before it:
\* nothing catches it and no connection was returned
InterruptBeforeConnection ==
    /\ pc \in {"start", "connect", "retry_sleep"}
    /\ raised' = "KeyboardInterrupt"
    /\ pc' = "exit"
    /\ UNCHANGED <<generator, reading, call, attempt, attempts, waits, conn,
                   closes, records_count, insert_calls, inserted, committed,
                   sleeps, summary>>
    /\ UNCHANGED pureVars

\* KeyboardInterrupt at lines 201-203: conn is assigned, the try block of
\* line 205 is not entered yet
InterruptBeforeTry ==
    /\ pc = "construct"
    /\ raised' = "KeyboardInterrupt"
    /\ pc' = "exit"
    /\ UNCHANGED <<generator, reading, call, attempt, attempts, waits, conn,
                   closes, records_count, insert_calls, inserted, committed,
                   sleeps, summary>>
    /\ UNCHANGED pureVars

\* KeyboardInterrupt between two statements of the loop body (lines 208-230)
InterruptInLoop ==
    /\ pc \in {"generate", "insert", "count", "sleep"}
    /\ raised' = "KeyboardInterrupt"
    /\ pc' = "except"
    /\ UNCHANGED <<generator, reading, call, attempt, attempts, waits, conn,
                   closes, records_count, insert_calls, inserted, committed,
                   sleeps, summary>>
    /\ UNCHANGED pureVars

\* KeyboardInterrupt inside insert_weather_data, before conn.commit()
\* (lines 175-183)
InterruptDuringInsert ==
    /\ pc = "insert"
    /\ conn = "open"
    /\ insert_calls' = insert_calls + 1
    /\ inserted' = reading
    /\ raised' = "KeyboardInterrupt"
    /\ pc' = "except"
    /\ UNCHANGED <<generator, reading, call, attempt, attempts, waits, conn,
                   closes, records_count, committed, sleeps, summary>>
    /\ UNCHANGED pureVars

\* lines 232-233: the handler prints the total
HandleInterrupt ==
    /\ pc = "except"
    /\ summary' = records_count
    /\ pc' = "finally"
    /\ UNCHANGED <<generator, reading, call, attempt, attempts, waits, conn,
                   closes, records_count, insert_calls, inserted, committed,
                   sleeps, raised>>
    /\ UNCHANGED pureVars

\* lines 234-236: conn.close(), then main() ends
Finally ==
    /\ pc = "finally"
    /\ conn' = "closed"
    /\ closes' = closes + 1
    /\ pc' = "exit"
    /\ UNCHANGED <<generator, reading, call, attempt, attempts, waits,
                   records_count, insert_calls, inserted, committed, sleeps,
                   summary, raised>>
    /\ UNCHANGED pureVars

Next ==
    \/ Start
    \/ ConnectSucceeds
    \/ ConnectUnavailable
    \/ RetrySleep
    \/ ConnectOtherError
    \/ Construct
    \/ LoopGenerate
    \/ InsertCommits
    \/ InsertFails
    \/ Count
    \/ Sleep
    \/ InterruptBeforeConnection
    \/ InterruptBeforeTry
    \/ InterruptInLoop
    \/ InterruptDuringInsert
    \/ HandleInterrupt
    \/ Finally

Spec == Init /\ [][Next]_vars

(***************************************************************************)
(* The two helper methods called on their own, once per run, on inputs     *)
(* drawn at the start: _weighted_choice on a list of at most MaxChoices    *)
(* entries named A, B, ... in list order, and _get_seasonal_factor at any  *)
(* hour of the day.  Weights are counted in halves of a unit, so that the  *)
(* draw r also falls strictly between two cumulative weights.              *)
(***************************************************************************)
ChoiceNames == <<"A", "B", "C", "D", "E">>

ChoiceWeights == {2 * w : w \in 0 .. MaxWeight}

ChoiceLists ==
    UNION { { [i \in 1 .. n |-> <<ChoiceNames[i], f[i]>>] :
                f \in [1 .. n -> ChoiceWeights] } :
            n \in 1 .. MaxChoices }

InitHelpers ==
    /\ generator = NoGenerator
    /\ reading = NoReading
    /\ call = NoCall
    /\ MainNotStarted
    /\ wc_result = <<>>
    /\ sf_result = <<>>
    /\ \/ /\ wc_choices \in ChoiceLists
          /\ wc_r \in 0 .. SumWeights(wc_choices)
          /\ clock_hour = 0
       \/ /\ wc_choices = <<>>
          /\ wc_r = 0
          /\ clock_hour \in 0 .. 23

\* _weighted_choice(wc_choices) with the draw wc_r
CallWeightedChoice ==
    /\ wc_choices # <<>>
    /\ wc_result = <<>>
    /\ wc_result' = << WeightedChoice(wc_choices, wc_r),
                       WalkReturnsAt(wc_choices, wc_r, 1, 0) = 0 >>
    /\ UNCHANGED <<wc_choices, wc_r, clock_hour, sf_result>>
    /\ UNCHANGED genVars
    /\ UNCHANGED mainVars

\* _get_seasonal_factor() at the hour clock_hour
CallSeasonalFactor ==
    /\ wc_choices = <<>>
    /\ sf_result = <<>>
    /\ sf_result' = << SeasonalFactor(clock_hour) >>
    /\ UNCHANGED <<wc_choices, wc_r, wc_result, clock_hour>>
    /\ UNCHANGED genVars
    /\ UNCHANGED mainVars

NextHelpers ==
    \/ CallWeightedChoice
    \/ CallSeasonalFactor

SpecHelpers == InitHelpers /\ [][NextHelpers]_vars

(***************************************************************************)
(* The generator on its own at the hours of the largest seasonal factor    *)
(* (10: +1, 22: -1), with humidity perturbations whose steps (0.2 times    *)
(* the draw) are 0, 0.8 or 1.2 in magnitude, and with the two large        *)
(* perturbations that carry base_humidity to the ends of its range.        *)
(***************************************************************************)
DriftHours == {10, 22}
DriftHumidityVariations == {-6000, -4000, 0, 4000, 6000}

DriftCalls ==
    {[QuietCall EXCEPT !.hour = h, !.humidity_variation = v] :
        h \in DriftHours, v \in DriftHumidityVariations}
    \cup {[QuietCall EXCEPT !.humidity_variation = v] : v \in HumidityVariations}

\* one generate() call
GenerateDrift ==
    /\ generator.constructed
    /\ generator.time_counter < MaxDriftCalls
    /\ \E d \in DriftCalls :
         LET res == GenerateResult(generator, d)
         IN  /\ generator' = res.generator
             /\ reading' = res.reading
             /\ call' = d
    /\ UNCHANGED mainVars
    /\ UNCHANGED pureVars

SpecDrift == InitGen /\ [][GenerateDrift]_vars

(***************************************************************************)
(* Properties.                                                             *)
(***************************************************************************)
Abs(x) == IF x < 0 THEN -x ELSE x

\* C1: after construction and after any sequence of generate() calls every
\* latent base is inside its clamp range: base_temperature in [-10,35],
\* base_humidity in [20,100], base_pressure in [980,1040], base_wind_speed
\* in [0,20].
BasesWithinClampRanges ==
    generator.constructed =>
        /\ generator.base_temperature >= -10000
        /\ generator.base_temperature <= 35000
        /\ generator.base_humidity >= 20000
        /\ generator.base_humidity <= 100000
        /\ generator.base_pressure >= 980000
        /\ generator.base_pressure <= 1040000
        /\ generator.base_wind_speed >= 0
        /\ generator.base_wind_speed <= 20000

\* C1 witness: the first call after construction pushed all four bases past
\* their upper limits and each was clamped back onto it.
AllBasesClampedToUpperLimit ==
    /\ generator.constructed
    /\ generator.time_counter = 1
    /\ call.temperature_variation = 310000
    /\ call.humidity_variation = 210000
    /\ call.pressure_variation = 820000
    /\ call.wind_variation = 170000
    /\ generator.base_temperature = 35000
    /\ generator.base_humidity = 100000
    /\ generator.base_pressure = 1040000
    /\ generator.base_wind_speed = 20000

\* C2: every reading returned by generate() has humidity in [20,100] and
\* wind_speed in [0,25], with or without a gust and for any noise draw.
HumidityAndWindSpeedInRange ==
    reading.returned =>
        /\ reading.humidity >= 20000
        /\ reading.humidity <= 100000
        /\ reading.wind_speed >= 0
        /\ reading.wind_speed <= 25000

\* C2 witness: a gust on a base of 20 m/s (30 m/s before the clamp) is
\* returned as 25, and a humidity base of 100 with positive noise as 100.
GustAndHumidityClamped ==
    /\ reading.returned
    /\ Gust(call.gust_roll)
    /\ generator.base_wind_speed = 20000
    /\ reading.wind_speed = 25000
    /\ call.humidity_noise > 0
    /\ generator.base_humidity = 100000
    /\ reading.humidity = 100000

DirectionMovesOneCircularStep ==
    /\ [](/\ generator.current_direction_idx \in 0 .. 7
          /\ reading.returned =>
                reading.wind_direction =
                    WIND_DIRECTIONS[generator.current_direction_idx + 1])
    /\ [][LET old == generator.current_direction_idx
              new == generator'.current_direction_idx
          IN  new \in {old, (old + 1) % 8, (old - 1) % 8}]_vars

\* C4 witness: the first call turned the index from 0 back around to 7 and
\* returned the label NW.
DirectionWrappedBelowZero ==
    /\ generator.constructed
    /\ generator.time_counter = 1
    /\ call.turn_roll < 50
    /\ call.turn_step = -1
    /\ generator.current_direction_idx = 7
    /\ reading.wind_direction = "NW"

\* C5: the condition of a reading comes from the regime fixed by the
\* pressure and humidity of that same reading (the returned values):
\* pressure < 1000 and humidity > 70 gives one of Overcast, LightRain, Rain,
\* Thunderstorm, Fog; otherwise pressure > 1020 gives one of Clear,
\* PartlyCloudy, Cloudy; otherwise one of the eight default conditions.
ConditionFromRegimeOfReading ==
    reading.returned =>
        IF reading.pressure < 1000000 /\ reading.humidity > 70000
        THEN reading.weather_condition \in
                {"Overcast", "LightRain", "Rain", "Thunderstorm", "Fog"}
        ELSE IF reading.pressure > 1020000
        THEN reading.weather_condition \in {"Clear", "PartlyCloudy", "Cloudy"}
        ELSE reading.weather_condition \in
                {"Clear", "PartlyCloudy", "Cloudy", "Overcast", "LightRain",
                 "Rain", "Thunderstorm", "Fog"}

\* C5 witness: the latent pressure is exactly 1000 (not below), the noisy
\* pressure returned is below 1000 with humidity above 70, and the condition
\* is the first entry of the rain list.
RainRegimeFromNoisyPressure ==
    /\ reading.returned
    /\ generator.base_pressure = 1000000
    /\ reading.pressure < 1000000
    /\ reading.humidity > 70000
    /\ reading.weather_condition = "Overcast"

\* C6: connect_to_db makes one connector call per attempt.  When it returns
\* a connection after N transient failures it has made exactly N+1 attempts
\* and raised nothing; it raises the fatal error only after exactly 30
\* failed attempts, and never makes a 31st.
ConnectAttemptsExact ==
    /\ attempts <= max_retries
    /\ pc = "connect" => attempts < max_retries
    /\ conn # "none" =>
          /\ attempts = waits + 1
          /\ attempts = attempt + 1
          /\ raised # "ConnectionExhausted"
    /\ raised = "ConnectionExhausted" =>
          /\ attempts = max_retries
          /\ conn = "none"

\* C6 witness: all 30 attempts failed and the fatal error left main().
ConnectionExhaustedAfterThirty ==
    /\ raised = "ConnectionExhausted"
    /\ pc = "exit"
    /\ attempts = 30

\* C7 as stated: once connect_to_db has returned a connection, main() ends
\* only with that connection closed, exactly once, and the loop never runs
\* on a closed connection.
ConnectionClosedOnEveryExit ==
    /\ (pc = "exit" /\ conn # "none") => (conn = "closed" /\ closes = 1)
    /\ pc \in {"generate", "insert", "count", "sleep"} => conn = "open"

\* C8 as stated: when main() handles the interrupt, every reading generated
\* has been inserted, committed and counted.
InterruptOnlyBetweenTicks ==
    pc = "except" =>
        /\ insert_calls = generator.time_counter
        /\ committed = generator.time_counter
        /\ records_count = generator.time_counter

\* C9 as stated: the total printed on interrupt equals the number of records
\* committed, and it is printed while the connection is still open.
SummaryEqualsCommitted ==
    /\ summary # -1 => summary = committed
    /\ pc = "except" => conn = "open"

\* C10: a failed write is not retried.  The failing insert is the only one
\* for its reading and commits nothing, records_count does not count it, no
\* generate() or insert follows, and main() ends with the connection closed.
FailedWriteNotRetried ==
    raised = "PersistFailure" =>
        /\ pc \in {"finally", "exit"}
        /\ insert_calls = generator.time_counter
        /\ inserted = reading
        /\ committed = insert_calls - 1
        /\ records_count = committed
        /\ pc = "exit" => (conn = "closed" /\ closes = 1)

\* C10 witness: the second write of the run failed and main() has ended.
SecondWriteFailed ==
    /\ raised = "PersistFailure"
    /\ pc = "exit"
    /\ insert_calls = 2
    /\ committed = 1

\* the weight of the entry named name in the list handed to _weighted_choice
WeightOfChoice(name) ==
    LET i == CHOOSE k \in 1 .. Len(wc_choices) : wc_choices[k][1] = name
    IN  wc_choices[i][2]

SomeChoiceHasWeight == \E k \in 1 .. Len(wc_choices) : wc_choices[k][2] > 0

\* C11 as stated: _weighted_choice never returns an entry of weight 0 when
\* another entry has positive weight, for every r and whatever the position
\* of the zero-weight entry.
ZeroWeightNeverChosen ==
    (wc_result # <<>> /\ SomeChoiceHasWeight) =>
        WeightOfChoice(wc_result[1]) > 0

\* C11 as amended: when another entry has positive weight, an entry of
\* weight 0 is returned only if it is the first entry of the list and r = 0;
\* with the list A:1, B:0 in that order A is always returned.
ZeroWeightChosenOnlyFirstAtZero ==
    (wc_result # <<>> /\ SomeChoiceHasWeight) =>
        /\ WeightOfChoice(wc_result[1]) = 0 =>
              (wc_r = 0 /\ wc_result[1] = wc_choices[1][1])
        /\ wc_choices = << <<"A", 2>>, <<"B", 0>> >> => wc_result[1] = "A"

\* C11 witness: the list A:1, B:0 with r drawn at the total weight, the
\* draw nearest to the zero-weight entry; A is returned.
PositiveEntryChosenAtTotal ==
    /\ wc_choices = << <<"A", 2>>, <<"B", 0>> >>
    /\ wc_r = 2
    /\ wc_result # <<>>
    /\ wc_result[1] = "A"

\* the cumulative weight of the first k entries
CumulativeWeight(k) == SumWeights(SubSeq(wc_choices, 1, k))

\* C13: for every non-empty list of non-negative weights and every r with
\* 0 <= r <= total, _weighted_choice returns the first entry in list order
\* whose cumulative weight is >= r; the result is an entry of the list and
\* the fall-back to the last entry is never reached.
FirstEntryReachingDraw ==
    wc_result # <<>> =>
        /\ \E i \in 1 .. Len(wc_choices) :
              /\ wc_result[1] = wc_choices[i][1]
              /\ CumulativeWeight(i) >= wc_r
              /\ \A j \in 1 .. (i - 1) : CumulativeWeight(j) < wc_r
        /\ wc_result[2] = FALSE

\* C13 witness: three entries, r above the cumulative weight of the first
\* two and equal to the total; the last entry is returned by the loop.
LastEntryChosenByLoop ==
    /\ Len(wc_choices) = 3
    /\ wc_result # <<>>
    /\ wc_r = SumWeights(wc_choices)
    /\ CumulativeWeight(2) < wc_r
    /\ wc_result[1] = "C"

\* C16 as stated: over the hours 0..23 the seasonal factor is within [-1,1],
\* is largest at around hour 14 and smallest at around hour 4 (no hour gives
\* more than the largest of hours 13..15 or less than the smallest of 3..5).
SeasonalPeakNearFourteen ==
    sf_result # <<>> =>
        /\ sf_result[1] >= -1000
        /\ sf_result[1] <= 1000
        /\ \E h \in 13 .. 15 : sf_result[1] <= SeasonalFactor(h)
        /\ \E h \in 3 .. 5 : sf_result[1] >= SeasonalFactor(h)

\* the number of generate() calls main() has made
GenerateCalls == IF generator.constructed THEN generator.time_counter ELSE 0

\* C12: in every run of main() generate() and insert_weather_data() calls
\* alternate, starting with generate(): each insert receives the reading of
\* the generate() just before it, each reading is inserted at most once, no
\* generate() starts before the previous insert has returned, and the
\* interval wait comes after each successful insert and before the next
\* generate().
GenerateAndInsertAlternate ==
    /\ [](/\ insert_calls <= GenerateCalls
          /\ GenerateCalls <= insert_calls + 1
          /\ sleeps <= committed
          /\ GenerateCalls <= sleeps + 1
          /\ (insert_calls > 0 /\ insert_calls = GenerateCalls) =>
                inserted = reading)
    /\ [][insert_calls' # insert_calls =>
            /\ insert_calls' = insert_calls + 1
            /\ GenerateCalls = insert_calls + 1
            /\ inserted' = reading]_vars
    /\ [][GenerateCalls' # GenerateCalls =>
            /\ GenerateCalls' = GenerateCalls + 1
            /\ insert_calls = GenerateCalls
            /\ committed = GenerateCalls
            /\ sleeps = GenerateCalls]_vars
    /\ [][sleeps' # sleeps =>
            /\ sleeps' = sleeps + 1
            /\ committed = sleeps + 1
            /\ records_count = sleeps + 1
            /\ GenerateCalls = sleeps + 1]_vars

\* C12 witness: the second tick has inserted its reading, one interval wait
\* after the first tick.
SecondTickInserted ==
    /\ pc = "count"
    /\ GenerateCalls = 2
    /\ insert_calls = 2
    /\ committed = 2
    /\ sleeps = 1
    /\ inserted = reading

\* C14 as stated: connect_to_db waits only between two attempts, so when it
\* returns or raises the fatal error after k attempts it has waited exactly
\* k-1 times.
WaitsOnlyBetweenAttempts ==
    (conn # "none" \/ raised = "ConnectionExhausted") => waits = attempts - 1

\* C17: an error of a connection attempt other than the transient one leaves
\* connect_to_db on its first occurrence, with no wait and no attempt after
\* it, and main() ends without a generator and without an insert.
OtherConnectErrorPropagates ==
    raised = "ConnectError" =>
        /\ pc = "exit"
        /\ attempts = attempt + 1
        /\ waits = attempts - 1
        /\ conn = "none"
        /\ generator = NoGenerator
        /\ insert_calls = 0
        /\ committed = 0

\* C17 witness: two transient failures, then the other error on the third
\* attempt ended main().
OtherErrorOnThirdAttempt ==
    /\ raised = "ConnectError"
    /\ pc = "exit"
    /\ attempts = 3
    /\ waits = 2

\* the draws d with the same four perturbations and the same turn, replayed
\* at hour 22 without a gust and with low output noise, and at hour 10 with
\* a gust and high output noise
OtherOutcomes(d) ==
    { [d EXCEPT !.hour = n[1], !.gust_roll = n[2],
                !.temperature_noise = n[3], !.humidity_noise = n[4],
                !.pressure_noise = n[5], !.wind_noise = n[6],
                !.choice_roll = n[7]] :
      n \in { <<22, 500, -300, -2000, -500, -300, 0>>,
              <<10, 50, 300, 2000, 500, 300, 1000>> } }

\* C15: the gust and the seasonal temperature addend act on the reading of
\* the current call only.  A generate() call from the same latent state with
\* the same perturbation draws ends with the same base_temperature,
\* base_pressure and base_wind_speed whatever the hour, the gust roll, the
\* output noise and the condition draw; base_wind_speed never exceeds 20,
\* also on a gust call whose wind_speed is above 20.
GustAndSeasonLeaveBasesAlone ==
    /\ [](generator.constructed => generator.base_wind_speed <= 20000)
    /\ [][generator' # generator =>
            \A d \in OtherOutcomes(call') :
                LET other == GenerateResult(generator, d).generator
                IN  /\ other.base_temperature = generator'.base_temperature
                    /\ other.base_pressure = generator'.base_pressure
                    /\ other.base_wind_speed = generator'.base_wind_speed]_vars

\* C15 witness: a gust call at hour 10 returned a wind_speed above 20 and a
\* temperature 5 degrees above its base, with base_wind_speed left at 20.
GustAboveTwentyBaseAtTwenty ==
    /\ reading.returned
    /\ Gust(call.gust_roll)
    /\ call.hour = 10
    /\ reading.wind_speed > 20000
    /\ generator.base_wind_speed = 20000
    /\ reading.temperature >= generator.base_temperature + 5000

\* C18: the seasonal humidity adjustment accumulates in the latent base.  On
\* a call at an hour whose seasonal factor s is positive, with a humidity
\* perturbation step smaller in magnitude than s, base_humidity strictly
\* decreases unless it is 20, and at 20 it stays 20; with s negative it
\* strictly increases unless it is 100, and at 100 it stays 100.
SeasonalAdjustmentAccumulates ==
    [][generator' # generator =>
        LET s == SeasonalFactor(call'.hour)
            step == Scale(call'.humidity_variation, 2, 10)
            old == generator.base_humidity
            new == generator'.base_humidity
        IN  /\ (s > 0 /\ Abs(step) < s) =>
                  /\ new >= 20000
                  /\ old > 20000 => new < old
                  /\ old = 20000 => new = 20000
            /\ (s < 0 /\ Abs(step) < -s) =>
                  /\ new <= 100000
                  /\ old < 100000 => new > old
                  /\ old = 100000 => new = 100000]_vars

\* C18 witness: at hour 10, after a perturbation step of +0.8 against the
\* seasonal step of -1, base_humidity is at 20 on the fourth call.
HumidityDownAtTwenty ==
    /\ generator.constructed
    /\ generator.time_counter = 4
    /\ call.hour = 10
    /\ call.humidity_variation = 4000
    /\ generator.base_humidity = 20000

====
